---- MODULE Spec2Model ----
(***************************************************************************)
(* PronoiaApp: the gap-detection and auto-snap correction engine that runs *)
(* when the operator commits a photo placement inside a template slot.     *)
(*                                                                         *)
(* The engine's implementation (components/PhotoRenderer.tsx and           *)
(* components/InlinePhotoEditor.tsx) is described by the repository's      *)
(* CLAUDE.md (src/unnamed/part_000, "Auto-Snap Movement Direction Bug");   *)
(* the definitions below follow that description where it gives the code,  *)
(* and the design document's sections 4.1-4.4 for the rest.                *)
(*                                                                         *)
(* Pixels are integers.  A percentage of the container is an exact         *)
(* fraction [num, den]: gap / containerRect.width is kept as the pair      *)
(* (gap, width) and turned back into pixels by Px, which multiplies by the *)
(* container dimension and divides by the denominator.                     *)
(***************************************************************************)
EXTENDS Integers, FiniteSets, Sequences, TLC

VARIABLES
    slotRect,      \* the slot container's rectangle when laid out
    natSize,       \* the photo's natural rendered size [width, height]
    transform,     \* the working transform of the editing session
    committed,     \* the transform last committed to the session state
    editor,        \* "Idle" | "Dragging" | "Finalizing"
    layout,        \* "settled" | "slotPending" | "photoPending"
    photoIn,       \* photo rectangle measured by the most recent finalize
    slotIn,        \* slot rectangle measured by the most recent finalize
    finalizeIn,    \* transform handed to the most recent finalize
    gaps,          \* trace: measured gap vector
    rawPlan,       \* trace: plan of the movement planner
    finalPlan,     \* trace: plan after post-snap validation
    trace,         \* trace: outcome note
    commitsInRow,  \* finalize calls since the last manipulation
    recentInteraction, \* the operator manipulated the photo less than 3 s ago
    session,       \* how the current or the last editing session went
    templateSlots,       \* the store's slot list, all templates in order
    templateToSwap,      \* the template group the swap modal is open for
    availableTemplates,  \* modal state: templates loaded for the print size
    selectedNewTemplate, \* modal state: the template picked to swap in
    swapCount,           \* confirmed swaps so far; the clock behind Date.now()
    lastSwap,            \* the arguments of the most recent confirmed swap
    templateCounts,      \* store: how many prints of each template type
    selectedPackage,     \* store: the package that sets the limit
    countRun,            \* the handleTemplateCountChange calls since the counts were set
    viewer,              \* FullscreenPhotoViewer: props, state and its img element
    folderScreen,        \* FolderSelectionScreen: its state and the clicks it handled
    grid                 \* TemplateGrid and SlidingTemplateBar: props, state, key listener

vars == <<slotRect, natSize, transform, committed, editor, layout, photoIn,
          slotIn, finalizeIn, gaps, rawPlan, finalPlan, trace, commitsInRow,
          recentInteraction, session, templateSlots, templateToSwap,
          availableTemplates, selectedNewTemplate, swapCount, lastSwap,
          templateCounts, selectedPackage, countRun, viewer, folderScreen, grid>>

editorVars == <<slotRect, natSize, transform, committed, editor, layout, photoIn,
                slotIn, finalizeIn, gaps, rawPlan, finalPlan, trace, commitsInRow,
                recentInteraction, session>>

swapVars == <<templateSlots, templateToSwap, availableTemplates,
              selectedNewTemplate, swapCount, lastSwap>>

uiVars == <<templateCounts, selectedPackage, countRun, viewer>>

screenVars == <<folderScreen, grid>>

(***************************************************************************)
(* Bounds of the model.                                                    *)
(***************************************************************************)
MaxDrag == 3        \* farthest pixel offset a drag may reach, per axis
MaxScale == 3       \* largest scale the operator may pinch to
MaxCommits == 2     \* finalize calls in a row without manipulation
MaxProbe == 7       \* farthest inset of a probed photo rectangle, per axis
MaxSlots == 3       \* most holes of a template
MaxSwaps == 1       \* confirmed template swaps in one behaviour
MaxCount == 2       \* largest count setTemplateCounts stores for a template
MaxChange == 2      \* largest step of one count change, up or down
MaxLimit == 3       \* largest customLimit handed to a count change
MaxPhotos == 3      \* most photos in the viewer's list
MaxContinues == 3   \* handleContinue calls of one FolderSelectionScreen
MaxGroups == 3      \* most template groups in the grid

(***************************************************************************)
(* Policy constants.                                                       *)
(***************************************************************************)
GAP_THRESHOLD == 0
POST_SNAP_ALLOWANCE == 5
DefaultScale == 1

Sides == {"top", "right", "bottom", "left"}

SlotRects == { [x |-> 2, y |-> 1, width |-> 14, height |-> 12] }

NatSizes == { [width |-> 5, height |-> 6] }

Max(a, b) == IF a >= b THEN a ELSE b

Abs(a) == IF a >= 0 THEN a ELSE -a

(***************************************************************************)
(* Fractions of a container dimension.                                     *)
(***************************************************************************)
Rat(n, d) == [num |-> n, den |-> d]

RatZero == Rat(0, 1)

RatAdd(a, b) ==
    IF a.den = b.den
    THEN Rat(a.num + b.num, a.den)
    ELSE Rat(a.num * b.den + b.num * a.den, a.den * b.den)

RatSub(a, b) == RatAdd(a, Rat(-b.num, b.den))

RatEq(a, b) == a.num * b.den = b.num * a.den

\* percentage of a container dimension back to pixels
Px(p, dim) == IF p.den = 0 THEN 0 ELSE (p.num * dim) \div p.den

(***************************************************************************)
(* Transform and geometry.                                                 *)
(***************************************************************************)
MkTransform(ox, oy, s) ==
    [offsetXPercent |-> ox, offsetYPercent |-> oy, scale |-> s]

DefaultTransform == MkTransform(RatZero, RatZero, DefaultScale)

ShiftRect(r, dxPx, dyPx) ==
    [x |-> r.x + dxPx, y |-> r.y + dyPx, width |-> r.width, height |-> r.height]

\* the rendered photo: centred in the slot at offset 0, scaled about its
\* centre, moved by the offsets taken as fractions of the slot's dimensions
RenderPhoto(t, slot, nat) ==
    LET w == nat.width * t.scale
        h == nat.height * t.scale
    IN [x |-> slot.x + ((slot.width - w) \div 2) + Px(t.offsetXPercent, slot.width),
        y |-> slot.y + ((slot.height - h) \div 2) + Px(t.offsetYPercent, slot.height),
        width |-> w, height |-> h]

Collapsed(r) == [x |-> r.x, y |-> r.y, width |-> 0, height |-> 0]

\* the geometry provider: both rectangles of the current frame; an element
\* that is not laid out yet measures as a rectangle of zero extent
GeometryReader(t, slot, nat, lay) ==
    [slot  |-> IF lay = "slotPending" THEN Collapsed(slot) ELSE slot,
     photo |-> IF lay = "photoPending"
               THEN Collapsed(RenderPhoto(t, slot, nat))
               ELSE RenderPhoto(t, slot, nat)]

(***************************************************************************)
(* Gap Detector.                                                           *)
(***************************************************************************)
\* detectGaps without the clamp at zero: an overlapping edge measures negative
detectGapsSigned(slot, photo) ==
    [top    |-> photo.y - slot.y,
     right  |-> (slot.x + slot.width) - (photo.x + photo.width),
     bottom |-> (slot.y + slot.height) - (photo.y + photo.height),
     left   |-> photo.x - slot.x]

detectGaps(slot, photo) ==
    [top    |-> Max(0, photo.y - slot.y),
     right  |-> Max(0, (slot.x + slot.width) - (photo.x + photo.width)),
     bottom |-> Max(0, (slot.y + slot.height) - (photo.y + photo.height)),
     left   |-> Max(0, photo.x - slot.x)]

significantGaps(g, threshold) == [s \in Sides |-> g[s] > threshold]

B2N(b) == IF b THEN 1 ELSE 0

gapCount(sig) == B2N(sig.top) + B2N(sig.right) + B2N(sig.bottom) + B2N(sig.left)

(***************************************************************************)
(* Movement Planner.                                                       *)
(***************************************************************************)
NoOpPlan == [kind |-> "NoOp", dxPercent |-> RatZero, dyPercent |-> RatZero]

ResetPlan == [kind |-> "ResetToDefault", dxPercent |-> RatZero, dyPercent |-> RatZero]

TranslatePlan(dx, dy) == [kind |-> "Translate", dxPercent |-> dx, dyPercent |-> dy]

\* the movement before the direction fix: a left gap moved the photo left
horizontalMovementOld(g, sig, containerRect) ==
    LET fromLeft == IF sig.left THEN Rat(-g.left, containerRect.width) ELSE RatZero
    IN IF sig.right
       THEN RatSub(fromLeft, Rat(g.right, containerRect.width))
       ELSE fromLeft

\* a left gap adds gaps.left / containerRect.width, a right gap takes
\* gaps.right / containerRect.width away
horizontalMovement(g, sig, containerRect) ==
    LET fromLeft == IF sig.left THEN Rat(g.left, containerRect.width) ELSE RatZero
    IN IF sig.right
       THEN RatSub(fromLeft, Rat(g.right, containerRect.width))
       ELSE fromLeft

\* a top gap adds gaps.top / containerRect.height, a bottom gap takes
\* gaps.bottom / containerRect.height away
verticalMovement(g, sig, containerRect) ==
    LET fromTop == IF sig.top THEN Rat(g.top, containerRect.height) ELSE RatZero
    IN IF sig.bottom
       THEN RatSub(fromTop, Rat(g.bottom, containerRect.height))
       ELSE fromTop

\* the planner falling through to a reset when no side has a gap
planMovementNoGapResets(g, containerRect, threshold) ==
    LET sig == significantGaps(g, threshold)
        n   == gapCount(sig)
    IN IF n >= 1 /\ n <= 2
       THEN TranslatePlan(horizontalMovement(g, sig, containerRect),
                          verticalMovement(g, sig, containerRect))
       ELSE ResetPlan

\* the planner with the 5 px detection threshold that was removed
planMovementOldThreshold(g, containerRect, threshold) ==
    LET sig == [s \in Sides |-> g[s] > 5]
        n   == B2N(sig.top) + B2N(sig.right) + B2N(sig.bottom) + B2N(sig.left)
    IN IF n >= 3 THEN ResetPlan
       ELSE IF n >= 1
            THEN TranslatePlan(horizontalMovement(g, sig, containerRect),
                               verticalMovement(g, sig, containerRect))
            ELSE NoOpPlan

planMovement(g, containerRect, threshold) ==
    LET sig == significantGaps(g, threshold)
        n   == gapCount(sig)
    IN IF n >= 3 THEN ResetPlan
       ELSE IF n >= 1
            THEN TranslatePlan(horizontalMovement(g, sig, containerRect),
                               verticalMovement(g, sig, containerRect))
            ELSE NoOpPlan

(***************************************************************************)
(* Post-Snap Validator.                                                    *)
(***************************************************************************)
\* the gap vector of the photo rectangle shifted by the planned movement
detectPostSnapGaps(plan, slot, photo) ==
    detectGaps(slot, ShiftRect(photo, Px(plan.dxPercent, slot.width),
                                      Px(plan.dyPercent, slot.height)))

\* the validator re-examining every plan, whatever its kind
validateEveryPlan(plan, slot, photo, allowance) ==
    IF gapCount(significantGaps(detectPostSnapGaps(plan, slot, photo), allowance)) >= 3
    THEN ResetPlan
    ELSE plan

\* the validator overriding only when all four sides stay open
validateFourSides(plan, slot, photo, allowance) ==
    IF plan.kind # "Translate" THEN plan
    ELSE IF gapCount(significantGaps(detectPostSnapGaps(plan, slot, photo), allowance)) >= 4
         THEN ResetPlan
         ELSE plan

validate(plan, slot, photo, allowance) ==
    IF plan.kind # "Translate" THEN plan
    ELSE IF gapCount(significantGaps(detectPostSnapGaps(plan, slot, photo), allowance)) >= 3
         THEN ResetPlan
         ELSE plan

(***************************************************************************)
(* Finalizer.                                                              *)
(***************************************************************************)
IsDegenerate(r) == r.width <= 0 \/ r.height <= 0

NoGaps == [s \in Sides |-> 0]

\* a translation that overwrites the offsets instead of adding to them
applyPlanReplaceOffsets(t, plan) ==
    CASE plan.kind = "Translate" ->
            MkTransform(plan.dxPercent, plan.dyPercent, t.scale)
      [] plan.kind = "ResetToDefault" -> DefaultTransform
      [] OTHER -> t

\* a reset that recentres the photo and loses the scale
applyPlanResetScaleZero(t, plan) ==
    CASE plan.kind = "Translate" ->
            MkTransform(RatAdd(t.offsetXPercent, plan.dxPercent),
                        RatAdd(t.offsetYPercent, plan.dyPercent),
                        t.scale)
      [] plan.kind = "ResetToDefault" -> MkTransform(RatZero, RatZero, 0)
      [] OTHER -> t

\* a reset that recentres the photo but keeps the operator's scale
applyPlanKeepScale(t, plan) ==
    CASE plan.kind = "Translate" ->
            MkTransform(RatAdd(t.offsetXPercent, plan.dxPercent),
                        RatAdd(t.offsetYPercent, plan.dyPercent),
                        t.scale)
      [] plan.kind = "ResetToDefault" -> MkTransform(RatZero, RatZero, t.scale)
      [] OTHER -> t

applyPlan(t, plan) ==
    CASE plan.kind = "Translate" ->
            MkTransform(RatAdd(t.offsetXPercent, plan.dxPercent),
                        RatAdd(t.offsetYPercent, plan.dyPercent),
                        t.scale)
      [] plan.kind = "ResetToDefault" -> DefaultTransform
      [] OTHER -> t

traceNote(raw, final) ==
    CASE final.kind = "NoOp" -> "NoCorrection"
      [] final.kind = "Translate" -> "Translated"
      [] raw.kind = "Translate" -> "PostSnapOverride"
      [] OTHER -> "ResetToDefault"

\* the pipeline without the guard against rectangles of no extent
finalizeUnguarded(t, slot, photo) ==
    LET g     == detectGaps(slot, photo)
        raw   == planMovement(g, slot, GAP_THRESHOLD)
        final == validate(raw, slot, photo, POST_SNAP_ALLOWANCE)
    IN [nextTransform |-> applyPlan(t, final), gaps |-> g, rawPlan |-> raw,
        finalPlan |-> final, trace |-> traceNote(raw, final)]

\* finalize(currentTransform, slotRect, photoRect) -> (nextTransform, trace)
finalizePositioning(t, slot, photo) ==
    IF IsDegenerate(slot) \/ IsDegenerate(photo)
    THEN [nextTransform |-> t, gaps |-> NoGaps, rawPlan |-> NoOpPlan,
          finalPlan |-> NoOpPlan, trace |-> "DegenerateGeometry"]
    ELSE LET g     == detectGaps(slot, photo)
             raw   == planMovement(g, slot, GAP_THRESHOLD)
             final == validate(raw, slot, photo, POST_SNAP_ALLOWANCE)
         IN [nextTransform |-> applyPlan(t, final), gaps |-> g, rawPlan |-> raw,
             finalPlan |-> final, trace |-> traceNote(raw, final)]

\* finalization skipped while the operator has manipulated the photo recently
finalizeUnlessRecent(t, slot, photo, recent) ==
    IF recent
    THEN [nextTransform |-> t, gaps |-> NoGaps, rawPlan |-> NoOpPlan,
          finalPlan |-> NoOpPlan, trace |-> "RecentInteraction"]
    ELSE finalizePositioning(t, slot, photo)

\* the finalization of a commit: auto-snap runs whether or not the operator
\* has manipulated the photo recently
finalizeOnCommit(t, slot, photo, recent) == finalizePositioning(t, slot, photo)

(***************************************************************************)
(* Template swap: TemplateSwapModal.handleConfirmSwap on the slot list.    *)
(* A list is a sequence, so list[i + 1] is the code's list[i]; indices     *)
(* named as in the code (firstSlotIndex, slotIndex, index) count from 0.   *)
(***************************************************************************)
\* an undefined photoId is the empty string: falsy, as the code tests it
NoPhoto == ""

NoTransform == "undefined"

\* what a slot may hold: nothing, a photo with an edited transform, a photo
\* placed and never edited
SlotContents ==
    { [photoId |-> NoPhoto, transform |-> NoTransform],
      [photoId |-> "p1", transform |-> "tfA"],
      [photoId |-> "p2", transform |-> NoTransform] }

\* the k-th template of the database: template 0 has no holes_data, template
\* k > 0 has holes_data of length k - 1
ManualTemplate(k) ==
    [id |-> k, template_type |-> k,
     holes_data |-> [present |-> k > 0, length |-> IF k > 0 THEN k - 1 ELSE 0]]

TemplatesByPrintSize == [k \in 1..(MaxSlots + 2) |-> ManualTemplate(k - 1)]

NoManualTemplate ==
    [id |-> -1, template_type |-> -1, holes_data |-> [present |-> FALSE, length |-> 0]]

NoTemplateToSwap ==
    [templateId |-> "none", templateName |-> [name |-> -1, printNumber |-> 0], slots |-> <<>>]

\* the slots a template has before any swap; they were created one tick
\* apart before the first swap, whose Date.now() is 1
InitialSlots(tid, type, printNumber, contents) ==
    [i \in 1..Len(contents) |->
        [id           |-> [template |-> type, now |-> 0 - printNumber, index |-> i - 1],
         templateId   |-> tid,
         templateName |-> [name |-> type, printNumber |-> printNumber],
         templateType |-> type,
         slotIndex    |-> i - 1,
         photoId      |-> contents[i].photoId,
         transform    |-> contents[i].transform,
         printSize    |-> "4R"]]

\* three templates in a row; the middle one has 1..MaxSlots slots
InitialSlotLists ==
    { InitialSlots("T1", 2, 1, <<[photoId |-> "p0", transform |-> "tfB"]>>)
        \o InitialSlots("T2", Len(cs) + 1, 2, cs)
        \o InitialSlots("T3", 2, 3, <<[photoId |-> NoPhoto, transform |-> NoTransform]>>) :
      cs \in UNION { [1..n -> SlotContents] : n \in 1..MaxSlots } }

slotsOfTemplate(list, tid) ==
    LET ofTemplate(s) == s.templateId = tid
    IN SelectSeq(list, ofTemplate)

\* the keys of the reduce accumulator, in order of first appearance
RECURSIVE groupIds(_)
groupIds(list) ==
    IF list = <<>>
    THEN <<>>
    ELSE LET front == groupIds(SubSeq(list, 1, Len(list) - 1))
             tid   == list[Len(list)].templateId
         IN IF \E g \in 1..Len(front) : front[g] = tid
            THEN front
            ELSE Append(front, tid)

templateGroups(list) ==
    LET ids == groupIds(list)
    IN [g \in 1..Len(ids) |->
          [templateId   |-> ids[g],
           templateName |-> slotsOfTemplate(list, ids[g])[1].templateName,
           slots        |-> slotsOfTemplate(list, ids[g])]]

\* Array.prototype.findIndex on the templateId: -1 when no slot matches
findSlotIndex(list, tid) ==
    IF \E i \in 1..Len(list) : list[i].templateId = tid
    THEN (CHOOSE i \in 1..Len(list) :
            /\ list[i].templateId = tid
            /\ \A j \in 1..(i - 1) : list[j].templateId # tid) - 1
    ELSE -1

findGroupIndex(groups, tid) ==
    IF \E g \in 1..Len(groups) : groups[g].templateId = tid
    THEN (CHOOSE g \in 1..Len(groups) :
            /\ groups[g].templateId = tid
            /\ \A h \in 1..(g - 1) : groups[h].templateId # tid) - 1
    ELSE -1

slotIndicesToRemove(list, tid) ==
    { i - 1 : i \in { j \in 1..Len(list) : list[j].templateId = tid } }

\* holes_data?.length || 1
newSlotsCount(newTemplate) ==
    IF newTemplate.holes_data.present /\ newTemplate.holes_data.length # 0
    THEN newTemplate.holes_data.length
    ELSE 1

\* slots[index]?.photoId and slots[index]?.transform
slotContentAt(slots, index) ==
    IF index < Len(slots)
    THEN [photoId |-> slots[index + 1].photoId, transform |-> slots[index + 1].transform]
    ELSE [photoId |-> NoPhoto, transform |-> NoTransform]

\* photo preservation that copies by index only
preservedByIndexOnly(slots, newCount, index) == slotContentAt(slots, index)

\* the photo and transform the new slot at index carries
preservedContent(slots, newCount, index) ==
    LET byIndex == slotContentAt(slots, index)
    IN IF newCount < Len(slots) /\ byIndex.photoId = NoPhoto /\ index = 0
          /\ \E j \in 1..Len(slots) : slots[j].photoId # NoPhoto
       THEN LET firstPhotoSlot ==
                    slots[CHOOSE j \in 1..Len(slots) :
                            /\ slots[j].photoId # NoPhoto
                            /\ \A h \in 1..(j - 1) : slots[h].photoId = NoPhoto]
            IN [photoId |-> firstPhotoSlot.photoId, transform |-> firstPhotoSlot.transform]
       ELSE byIndex

newSlots(toSwap, newTemplate, newTemplateName, now) ==
    [i \in 1..newSlotsCount(newTemplate) |->
        LET kept == preservedContent(toSwap.slots, newSlotsCount(newTemplate), i - 1)
        IN [id           |-> [template |-> newTemplate.id, now |-> now, index |-> i - 1],
            templateId   |-> toSwap.templateId,
            templateName |-> newTemplateName,
            templateType |-> newTemplate.template_type,
            slotIndex    |-> i - 1,
            photoId      |-> kept.photoId,
            transform    |-> kept.transform,
            printSize    |-> IF Len(toSwap.slots) > 0 THEN toSwap.slots[1].printSize ELSE "4R"]]

\* the backwards loop of splice(i, 1) over the slots of the template
removeOldSlots(list, tid) ==
    LET kept(s) == s.templateId # tid
    IN SelectSeq(list, kept)

\* an insertion index that appends the new slots to the list
insertionIndexAtEnd(list, tid) == Len(list)

correctedInsertionIndex(list, tid) ==
    LET firstSlotIndex == findSlotIndex(list, tid)
        slotsRemovedBeforeInsertion ==
            Cardinality({ i \in slotIndicesToRemove(list, tid) : i < firstSlotIndex })
    IN firstSlotIndex - slotsRemovedBeforeInsertion

\* Array.prototype.splice(start, 0, ...items)
spliceInsert(list, start, items) ==
    LET n  == Len(list)
        at == IF start < 0 THEN Max(n + start, 0) ELSE IF start > n THEN n ELSE start
    IN SubSeq(list, 1, at) \o items \o SubSeq(list, at + 1, n)

\* updatedSlots, the list handed to onConfirmSwap
handleConfirmSwap(list, toSwap, newTemplate, now) ==
    LET printNumber     == findGroupIndex(templateGroups(list), toSwap.templateId) + 1
        newTemplateName == [name |-> newTemplate.id, printNumber |-> printNumber]
    IN spliceInsert(removeOldSlots(list, toSwap.templateId),
                    correctedInsertionIndex(list, toSwap.templateId),
                    newSlots(toSwap, newTemplate, newTemplateName, now))

\* the template the modal selects by itself once the templates are loaded
autoSelected(toSwap, available, current) ==
    IF Len(available) = 0
    THEN NoManualTemplate
    ELSE IF Len(toSwap.slots) = 0
    THEN current
    ELSE IF \E k \in 1..Len(available) :
                available[k].template_type = toSwap.slots[1].templateType
    THEN available[CHOOSE k \in 1..Len(available) :
            /\ available[k].template_type = toSwap.slots[1].templateType
            /\ \A h \in 1..(k - 1) :
                  available[h].template_type # toSwap.slots[1].templateType]
    ELSE available[1]

NoLastSwap ==
    [done |-> FALSE, templateSlots |-> <<>>, templateToSwap |-> NoTemplateToSwap,
     selectedNewTemplate |-> NoManualTemplate]

\* the store before a package is loaded, the modal closed
NoSwapYet ==
    /\ templateSlots = <<>>
    /\ templateToSwap = NoTemplateToSwap
    /\ availableTemplates = <<>>
    /\ selectedNewTemplate = NoManualTemplate
    /\ swapCount = 0
    /\ lastSwap = NoLastSwap

(***************************************************************************)
(* FullscreenPhotoViewer: navigation through the photos and the fallback   *)
(* URLs of the photo shown.  A URL is the pair of its base and its size    *)
(* marker (the "=s220" of a Drive thumbnail); photos[i + 1] is the code's  *)
(* photos[i], and indices named as in the code count from 0.               *)
(***************************************************************************)
NoUrl == [base |-> "", size |-> "none"]

DriveLink == [base |-> "drive", size |-> "none"]

\* a photo without thumbnail and url, one with a url only, one with a Drive
\* thumbnail whose url is the Drive link
PhotoKinds ==
    { [thumbnailUrl |-> NoUrl, url |-> NoUrl],
      [thumbnailUrl |-> NoUrl, url |-> [base |-> "orig", size |-> "none"]],
      [thumbnailUrl |-> [base |-> "thumb", size |-> "s220"], url |-> DriveLink] }

Photo(id, kind) == [id |-> id, thumbnailUrl |-> kind.thumbnailUrl, url |-> kind.url]

\* the photo prop when it is not one of photos
OutsidePhoto == Photo(0 - 1, [thumbnailUrl |-> NoUrl, url |-> [base |-> "orig", size |-> "none"]])

PhotoLists ==
    UNION { { [i \in 1..n |-> Photo(i - 1, kinds[i])] : kinds \in [1..n -> PhotoKinds] } :
            n \in 1..MaxPhotos }

\* thumbnailUrl.replace('=s220', size)
replaceSize(u, size) == IF u.size = "s220" THEN [base |-> u.base, size |-> size] ELSE u

includes(list, u) == \E k \in 1..Len(list) : list[k] = u

getFallbackUrls(photo) ==
    LET sized == IF photo.thumbnailUrl # NoUrl
                 THEN << replaceSize(photo.thumbnailUrl, "s1600"),
                         replaceSize(photo.thumbnailUrl, "s1200"),
                         replaceSize(photo.thumbnailUrl, "s800"),
                         replaceSize(photo.thumbnailUrl, "s600") >>
                 ELSE <<>>
        drive == Append(sized, DriveLink)
        orig  == IF photo.url # NoUrl /\ ~includes(drive, photo.url)
                 THEN Append(drive, photo.url)
                 ELSE drive
        all   == IF photo.thumbnailUrl # NoUrl
                 THEN Append(orig, photo.thumbnailUrl)
                 ELSE orig
        truthy(u) == u # NoUrl
    IN SelectSeq(all, truthy)

\* photos.findIndex(p => p.id === photo.id)
findPhotoIndex(photos, photo) ==
    IF \E i \in 1..Len(photos) : photos[i].id = photo.id
    THEN (CHOOSE i \in 1..Len(photos) :
            /\ photos[i].id = photo.id
            /\ \A j \in 1..(i - 1) : photos[j].id # photo.id) - 1
    ELSE -1

\* photos[currentPhotoIndex] || photo
currentPhotoOf(v) ==
    IF v.currentPhotoIndex >= 0 /\ v.currentPhotoIndex < Len(v.photos)
    THEN v.photos[v.currentPhotoIndex + 1]
    ELSE v.photo

\* the key of the img element
imgKey(v) == <<currentPhotoOf(v).id, v.currentUrlIndex>>

\* the render after a state change: an img whose key changed is a new element
\* that starts loading, an img with the same key is the element it was
rendered(old, new) ==
    IF imgKey(new) = imgKey(old)
    THEN [new EXCEPT !.attempts = IF new.img = "loading" /\ new.attempts = 0
                                  THEN 1
                                  ELSE new.attempts]
    ELSE [new EXCEPT !.img = "loading", !.attempts = new.attempts + 1]

\* the second effect: a changed currentPhotoIndex resets the image state
afterIndexChange(old, new) ==
    IF new.currentPhotoIndex = old.currentPhotoIndex
    THEN new
    ELSE [new EXCEPT !.currentUrlIndex = 0, !.imageLoaded = FALSE,
                     !.imageError = FALSE, !.attempts = 0]

\* previous that stops at the first photo
previousIndexNoWrap(v) ==
    IF v.currentPhotoIndex > 0 THEN v.currentPhotoIndex - 1 ELSE 0

previousIndex(v) ==
    IF v.currentPhotoIndex > 0 THEN v.currentPhotoIndex - 1 ELSE Len(v.photos) - 1

nextIndex(v) ==
    IF v.currentPhotoIndex < Len(v.photos) - 1 THEN v.currentPhotoIndex + 1 ELSE 0

\* setCurrentPhotoIndex(newIndex) behind the validity check of both handlers
navigatedTo(v, newIndex, op) ==
    LET moved == IF newIndex >= 0 /\ newIndex < Len(v.photos)
                 THEN [v EXCEPT !.currentPhotoIndex = newIndex]
                 ELSE v
        noted == [moved EXCEPT !.op2 = v.op1, !.from2 = v.from1,
                               !.op1 = op, !.from1 = v.currentPhotoIndex]
        shown == rendered(v, afterIndexChange(v, noted))
    IN [shown EXCEPT !.urlAfterNav = shown.currentUrlIndex]

\* the viewer opened on a photo
viewerOn(photos, photo) ==
    [photos |-> photos, photo |-> photo,
     currentPhotoIndex |-> findPhotoIndex(photos, photo),
     currentUrlIndex |-> 0, imageLoaded |-> FALSE, imageError |-> FALSE,
     img |-> "loading", attempts |-> 1,
     op1 |-> "open", from1 |-> 0, op2 |-> "open", from2 |-> 0, urlAfterNav |-> 0]

\* isVisible false: nothing is rendered
ViewerClosed ==
    [photos |-> <<>>, photo |-> OutsidePhoto,
     currentPhotoIndex |-> 0,
     currentUrlIndex |-> 0, imageLoaded |-> FALSE, imageError |-> FALSE,
     img |-> "none", attempts |-> 0,
     op1 |-> "open", from1 |-> 0, op2 |-> "open", from2 |-> 0, urlAfterNav |-> 0]

(***************************************************************************)
(* The app store: template counts under the package's limit.               *)
(***************************************************************************)
TemplateTypeIds == {"solo", "collage"}

\* three of the store's packages: A, B and C
packages ==
    { [id |-> "A", templateCount |-> 1], [id |-> "B", templateCount |-> 2],
      [id |-> "C", templateCount |-> 5] }

\* selectedPackage: null
NoPackage == [id |-> "null", templateCount |-> 0]

\* customLimit: undefined
NoCustomLimit == [given |-> FALSE, value |-> 0]

CustomLimits == {NoCustomLimit} \cup { [given |-> TRUE, value |-> v] : v \in 0..MaxLimit }

\* templateCounts: {}
NoCounts == [id \in {} |-> 0]

\* state.templateCounts[templateId] || 0
countOf(counts, templateId) ==
    IF templateId \in DOMAIN counts THEN counts[templateId] ELSE 0

\* Object.values(templateCounts).reduce((sum, count) => sum + count, 0)
RECURSIVE sumOver(_, _)
sumOver(counts, ids) ==
    IF ids = {}
    THEN 0
    ELSE LET id == CHOOSE k \in ids : TRUE
         IN counts[id] + sumOver(counts, ids \ {id})

getTotalTemplateCount(counts) == sumOver(counts, DOMAIN counts)

\* customLimit !== undefined ? customLimit : (selectedPackage?.templateCount || 0)
effectiveLimit(pkg, customLimit) ==
    IF customLimit.given THEN customLimit.value ELSE pkg.templateCount

\* the count change applied without the check against the limit
handleTemplateCountChangeUnchecked(counts, pkg, templateId, change, customLimit) ==
    [id \in DOMAIN counts \cup {templateId} |->
        IF id = templateId THEN Max(0, countOf(counts, templateId) + change) ELSE counts[id]]

\* the templateCounts after handleTemplateCountChange(templateId, change, customLimit)
handleTemplateCountChange(counts, pkg, templateId, change, customLimit) ==
    LET currentCount == countOf(counts, templateId)
        newCount     == Max(0, currentCount + change)
        totalCount   == getTotalTemplateCount(counts) - currentCount + newCount
        limit        == effectiveLimit(pkg, customLimit)
    IN IF totalCount <= limit
       THEN [id \in DOMAIN counts \cup {templateId} |->
                IF id = templateId THEN newCount ELSE counts[id]]
       ELSE counts

NoCountRun ==
    [called |-> FALSE, started |-> FALSE, fixed |-> FALSE, limit |-> 0,
     templateId |-> "solo", change |-> 0, before |-> NoCounts]

\* the components outside the editor and the swap modal, before they are used
UiAtRest ==
    /\ templateCounts = NoCounts
    /\ selectedPackage = NoPackage
    /\ countRun = NoCountRun
    /\ viewer = ViewerClosed

(***************************************************************************)
(* FolderSelectionScreen: the folder step, the package step and the clicks *)
(* on a package.  selectedPackage is the parent's state, handed down as a  *)
(* prop together with setSelectedPackage and handleContinue.               *)
(***************************************************************************)
Folders == {"f1", "f2", "f3"}

NoFolder == "null"

\* template_count 0 stands for a package row without a template count
ManualPackages ==
    { [id |-> "m1", template_count |-> 0],
      [id |-> "m2", template_count |-> 2],
      [id |-> "m3", template_count |-> 5] }

packageData(pkg) ==
    [id |-> pkg.id,
     templateCount |-> IF pkg.template_count = 0 THEN 1 ELSE pkg.template_count]

\* the screen as mounted; event, clicked, was, before and clicks record the
\* most recent event: what it was, the package clicked, the selected package
\* and the handleContinue count before it, and how many clicks in a row
\* (at most two are counted) the clicked package has had
FolderScreenMounted ==
    [selectedFolder |-> NoFolder, showPackageSelection |-> FALSE,
     continues |-> 0, event |-> "mount", clicked |-> NoPackage,
     was |-> NoPackage, before |-> 0, clicks |-> 0]

handlePackageContinue(fs, sel) ==
    IF fs.selectedFolder # NoFolder /\ sel # NoPackage
    THEN [fs EXCEPT !.continues = @ + 1]
    ELSE fs

packageClickContinuesAtOnce(fs, sel, pkg) ==
    [screen |-> handlePackageContinue(fs, packageData(pkg)),
     selected |-> packageData(pkg)]

\* onClick of a package row: the screen and the selected package after it
packageClick(fs, sel, pkg) ==
    IF sel.id = pkg.id
    THEN [screen |-> handlePackageContinue(fs, sel), selected |-> sel]
    ELSE [screen |-> fs, selected |-> packageData(pkg)]

(***************************************************************************)
(* TemplateGrid and SlidingTemplateBar.  currentIndex counts from 0, as in *)
(* the code; groups is templateGroups.length.                              *)
(***************************************************************************)
GridLayouts == {"coverflow", "horizontal"}

Callbacks == {"onSwapTemplate", "onDeleteTemplate", "onDownloadTemplate"}

NoTouch == "null"

Swipes == {"left", "right", "short"}

\* keyEditing is the isEditingMode that the registered keydown listener
\* closed over; called is the callback invoked last, and indexAtEdit the
\* currentIndex when editing mode was last switched on
gridOn(lay, n) ==
    [layout |-> lay, groups |-> n, currentIndex |-> 0,
     isEditingMode |-> FALSE, keyEditing |-> FALSE,
     touchStart |-> FALSE, touchEnd |-> NoTouch,
     barVisible |-> FALSE, called |-> "none", indexAtEdit |-> 0]

GridAtRest == gridOn("horizontal", 1)

\* navigateToTemplate of the render in which isEditingMode was isEditing
navigateToTemplate(g, isEditing, index) ==
    IF isEditing
    THEN g
    ELSE IF index >= 0 /\ index < g.groups
         THEN [g EXCEPT !.currentIndex = index]
         ELSE g

\* the keydown effect runs again, and registers the handleKeyDown of the
\* new render, only when one of its dependencies changed
keyboardEffect(old, new) ==
    IF \/ new.layout # old.layout
       \/ new.currentIndex # old.currentIndex
       \/ new.groups # old.groups
    THEN [new EXCEPT !.keyEditing = new.isEditingMode]
    ELSE new

\* an action button's onClick
actionClick(g, callback) ==
    IF g.isEditingMode THEN g ELSE [g EXCEPT !.called = callback]

\* the screens outside the editor, before they are used
ScreensAtRest ==
    /\ folderScreen = FolderScreenMounted
    /\ grid = GridAtRest

(***************************************************************************)
(* The editor around the core: Idle -> Dragging -> Finalizing -> Idle.     *)
(***************************************************************************)
NoRect == [x |-> 0, y |-> 0, width |-> 0, height |-> 0]

Layouts == {"settled", "slotPending", "photoPending"}

Init ==
    /\ slotRect \in SlotRects
    /\ natSize \in NatSizes
    /\ transform = DefaultTransform
    /\ committed = DefaultTransform
    /\ editor = "Idle"
    /\ layout = "settled"
    /\ photoIn = NoRect
    /\ slotIn = NoRect
    /\ finalizeIn = DefaultTransform
    /\ gaps = NoGaps
    /\ rawPlan = NoOpPlan
    /\ finalPlan = NoOpPlan
    /\ trace = "none"
    /\ commitsInRow = 0
    /\ recentInteraction = FALSE
    /\ session = "none"
    /\ NoSwapYet
    /\ UiAtRest
    /\ ScreensAtRest

\* a manipulation or a layout change ends the run of successive commits and
\* drops the previous decision trace
ForgetTrace ==
    /\ photoIn' = NoRect
    /\ slotIn' = NoRect
    /\ finalizeIn' = DefaultTransform
    /\ gaps' = NoGaps
    /\ rawPlan' = NoOpPlan
    /\ finalPlan' = NoOpPlan
    /\ trace' = "none"
    /\ commitsInRow' = 0

KeepTrace ==
    UNCHANGED <<photoIn, slotIn, finalizeIn, gaps, rawPlan, finalPlan, trace, commitsInRow>>

BeginDrag ==
    /\ editor = "Idle"
    /\ editor' = "Dragging"
    /\ session' = "open"
    /\ UNCHANGED <<slotRect, natSize, transform, committed, layout, recentInteraction>>
    /\ KeepTrace
    /\ UNCHANGED swapVars
    /\ UNCHANGED uiVars
    /\ UNCHANGED screenVars

InDragRange(t) ==
    /\ Abs(Px(t.offsetXPercent, slotRect.width)) <= MaxDrag
    /\ Abs(Px(t.offsetYPercent, slotRect.height)) <= MaxDrag

\* one pointer event: the raw pixel delta becomes a fraction of the container
DragMove ==
    /\ editor = "Dragging"
    /\ \E d \in {-1, 1}, axis \in {"x", "y"} :
         LET ox == IF axis = "x"
                   THEN RatAdd(transform.offsetXPercent, Rat(d, slotRect.width))
                   ELSE transform.offsetXPercent
             oy == IF axis = "y"
                   THEN RatAdd(transform.offsetYPercent, Rat(d, slotRect.height))
                   ELSE transform.offsetYPercent
         IN /\ InDragRange(MkTransform(ox, oy, transform.scale))
            /\ transform' = MkTransform(ox, oy, transform.scale)
    /\ recentInteraction' = TRUE
    /\ session' = "edited"
    /\ UNCHANGED <<slotRect, natSize, committed, editor, layout>>
    /\ ForgetTrace
    /\ UNCHANGED swapVars
    /\ UNCHANGED uiVars
    /\ UNCHANGED screenVars

\* one pinch event
ScaleMove ==
    /\ editor = "Dragging"
    /\ \E s \in 1..MaxScale :
         /\ s # transform.scale
         /\ transform' = [transform EXCEPT !.scale = s]
    /\ recentInteraction' = TRUE
    /\ session' = "edited"
    /\ UNCHANGED <<slotRect, natSize, committed, editor, layout>>
    /\ ForgetTrace
    /\ UNCHANGED swapVars
    /\ UNCHANGED uiVars
    /\ UNCHANGED screenVars

\* the checkmark: the commit trigger
CommitTrigger ==
    /\ editor = "Dragging"
    /\ commitsInRow < MaxCommits
    /\ commitsInRow > 0 \/ InDragRange(transform)
    /\ editor' = "Finalizing"
    /\ UNCHANGED <<slotRect, natSize, transform, committed, layout,
                   recentInteraction, session>>
    /\ KeepTrace
    /\ UNCHANGED swapVars
    /\ UNCHANGED uiVars
    /\ UNCHANGED screenVars

\* a finalize step that parks the editor in an error state when the geometry
\* is degenerate
FinalizeToError ==
    /\ editor = "Finalizing"
    /\ LET geo == GeometryReader(transform, slotRect, natSize, layout)
           out == finalizeOnCommit(transform, geo.slot, geo.photo, recentInteraction)
       IN /\ transform' = out.nextTransform
          /\ committed' = out.nextTransform
          /\ photoIn' = geo.photo
          /\ slotIn' = geo.slot
          /\ finalizeIn' = transform
          /\ gaps' = out.gaps
          /\ rawPlan' = out.rawPlan
          /\ finalPlan' = out.finalPlan
          /\ trace' = out.trace
          /\ editor' = IF out.trace = "DegenerateGeometry" THEN "Error" ELSE "Idle"
    /\ commitsInRow' = commitsInRow + 1
    /\ session' = "committed"
    /\ UNCHANGED <<slotRect, natSize, layout, recentInteraction>>
    /\ UNCHANGED swapVars
    /\ UNCHANGED uiVars
    /\ UNCHANGED screenVars

\* the whole pipeline, run once, synchronously
Finalize ==
    /\ editor = "Finalizing"
    /\ LET geo == GeometryReader(transform, slotRect, natSize, layout)
           out == finalizeOnCommit(transform, geo.slot, geo.photo, recentInteraction)
       IN /\ transform' = out.nextTransform
          /\ committed' = out.nextTransform
          /\ photoIn' = geo.photo
          /\ slotIn' = geo.slot
          /\ finalizeIn' = transform
          /\ gaps' = out.gaps
          /\ rawPlan' = out.rawPlan
          /\ finalPlan' = out.finalPlan
          /\ trace' = out.trace
    /\ commitsInRow' = commitsInRow + 1
    /\ editor' = "Idle"
    /\ session' = "committed"
    /\ UNCHANGED <<slotRect, natSize, layout, recentInteraction>>
    /\ UNCHANGED swapVars
    /\ UNCHANGED uiVars
    /\ UNCHANGED screenVars

\* an abandon that keeps the raw edits as the committed transform
CancelKeepsEdits ==
    /\ editor = "Dragging"
    /\ committed' = transform
    /\ editor' = "Idle"
    /\ session' = IF session = "edited" THEN "abandoned" ELSE "closed"
    /\ UNCHANGED <<slotRect, natSize, transform, layout, recentInteraction>>
    /\ KeepTrace
    /\ UNCHANGED swapVars
    /\ UNCHANGED uiVars
    /\ UNCHANGED screenVars

\* the operator abandons the edit
Cancel ==
    /\ editor = "Dragging"
    /\ transform' = committed
    /\ editor' = "Idle"
    /\ session' = IF session = "edited" THEN "abandoned" ELSE "closed"
    /\ UNCHANGED <<slotRect, natSize, committed, layout, recentInteraction>>
    /\ KeepTrace
    /\ UNCHANGED swapVars
    /\ UNCHANGED uiVars
    /\ UNCHANGED screenVars

\* the rendering pipeline lays an element out, or drops its layout
LayoutChange ==
    /\ editor # "Finalizing"
    /\ \E l \in Layouts :
         /\ l # layout
         /\ layout' = l
    /\ UNCHANGED <<slotRect, natSize, transform, committed, editor,
                   recentInteraction, session>>
    /\ ForgetTrace
    /\ UNCHANGED swapVars
    /\ UNCHANGED uiVars
    /\ UNCHANGED screenVars

\* 3 seconds pass without a manipulation
InteractionTimeout ==
    /\ recentInteraction
    /\ editor # "Finalizing"
    /\ recentInteraction' = FALSE
    /\ UNCHANGED <<slotRect, natSize, transform, committed, editor, layout, session>>
    /\ KeepTrace
    /\ UNCHANGED swapVars
    /\ UNCHANGED uiVars
    /\ UNCHANGED screenVars

Next ==
    \/ BeginDrag
    \/ DragMove
    \/ ScaleMove
    \/ CommitTrigger
    \/ Finalize
    \/ Cancel
    \/ LayoutChange
    \/ InteractionTimeout

Spec == Init /\ [][Next]_vars

(***************************************************************************)
(* The validator and the finalizer as pure functions: the rectangles and   *)
(* the plan handed to them are drawn from bounded sets, not rendered from  *)
(* an editing session.                                                     *)
(***************************************************************************)
ProbeSizes == { [width |-> 2, height |-> 2], [width |-> 10, height |-> 12] }

ProbeRects(slot) ==
    { [x |-> slot.x + i, y |-> slot.y + j, width |-> sz.width, height |-> sz.height] :
        i \in -1..MaxProbe, j \in -1..MaxProbe, sz \in ProbeSizes }

ProbePlans(slot) ==
    { TranslatePlan(Rat(i, slot.width), Rat(j, slot.height)) :
        i \in {-6, 0, 3, 6}, j \in {-6, 0, 6} } \cup {NoOpPlan, ResetPlan}

InitValidator ==
    /\ slotRect \in SlotRects
    /\ natSize \in NatSizes
    /\ transform = DefaultTransform
    /\ committed = DefaultTransform
    /\ editor = "Idle"
    /\ layout = "settled"
    /\ slotIn = slotRect
    /\ photoIn \in ProbeRects(slotRect)
    /\ rawPlan \in ProbePlans(slotRect)
    /\ finalizeIn = DefaultTransform
    /\ gaps = NoGaps
    /\ finalPlan = NoOpPlan
    /\ trace = "none"
    /\ commitsInRow = 0
    /\ recentInteraction = FALSE
    /\ session = "none"
    /\ NoSwapYet
    /\ UiAtRest
    /\ ScreensAtRest

\* validate(plan, gaps, slotRect, photoRect, allowance) on the probed plan
ValidateCall ==
    /\ trace = "none"
    /\ gaps' = detectGaps(slotIn, photoIn)
    /\ finalPlan' = validate(rawPlan, slotIn, photoIn, POST_SNAP_ALLOWANCE)
    /\ trace' = "validated"
    /\ UNCHANGED <<slotRect, natSize, transform, committed, editor, layout,
                   photoIn, slotIn, finalizeIn, rawPlan, commitsInRow,
                   recentInteraction, session>>
    /\ UNCHANGED swapVars
    /\ UNCHANGED uiVars
    /\ UNCHANGED screenVars

\* finalize(currentTransform, slotRect, photoRect) on the probed rectangles
FinalizeCall ==
    /\ trace = "none"
    /\ LET out == finalizePositioning(transform, slotIn, photoIn)
       IN /\ transform' = out.nextTransform
          /\ gaps' = out.gaps
          /\ rawPlan' = out.rawPlan
          /\ finalPlan' = out.finalPlan
          /\ trace' = out.trace
    /\ commitsInRow' = 1
    /\ UNCHANGED <<slotRect, natSize, committed, editor, layout, photoIn,
                   slotIn, finalizeIn, recentInteraction, session>>
    /\ UNCHANGED swapVars
    /\ UNCHANGED uiVars
    /\ UNCHANGED screenVars

NextValidator ==
    \/ ValidateCall
    \/ FinalizeCall

SpecValidator == InitValidator /\ [][NextValidator]_vars

(***************************************************************************)
(* The template grid and the swap modal around handleConfirmSwap.          *)
(***************************************************************************)
InitSwap ==
    /\ slotRect \in SlotRects
    /\ natSize \in NatSizes
    /\ transform = DefaultTransform
    /\ committed = DefaultTransform
    /\ editor = "Idle"
    /\ layout = "settled"
    /\ photoIn = NoRect
    /\ slotIn = NoRect
    /\ finalizeIn = DefaultTransform
    /\ gaps = NoGaps
    /\ rawPlan = NoOpPlan
    /\ finalPlan = NoOpPlan
    /\ trace = "none"
    /\ commitsInRow = 0
    /\ recentInteraction = FALSE
    /\ session = "none"
    /\ templateSlots \in InitialSlotLists
    /\ templateToSwap = NoTemplateToSwap
    /\ availableTemplates = <<>>
    /\ selectedNewTemplate = NoManualTemplate
    /\ swapCount = 0
    /\ lastSwap = NoLastSwap
    /\ UiAtRest
    /\ ScreensAtRest

isEditingMode == editor # "Idle"

\* the Change Template button of a template group; the modal opens, and
\* selects by itself when the templates are already loaded
OpenSwap ==
    /\ ~isEditingMode
    /\ templateToSwap = NoTemplateToSwap
    /\ swapCount < MaxSwaps
    /\ \E g \in 1..Len(templateGroups(templateSlots)) :
         LET group == templateGroups(templateSlots)[g]
         IN /\ templateToSwap' = group
            /\ selectedNewTemplate' =
                  autoSelected(group, availableTemplates, selectedNewTemplate)
    /\ UNCHANGED <<templateSlots, availableTemplates, swapCount, lastSwap>>
    /\ UNCHANGED editorVars
    /\ UNCHANGED uiVars
    /\ UNCHANGED screenVars

\* getTemplatesByPrintSize resolves; the selection effect runs on the result
LoadTemplates ==
    /\ templateToSwap # NoTemplateToSwap
    /\ availableTemplates = <<>>
    /\ availableTemplates' = TemplatesByPrintSize
    /\ selectedNewTemplate' =
          autoSelected(templateToSwap, TemplatesByPrintSize, selectedNewTemplate)
    /\ UNCHANGED <<templateSlots, templateToSwap, swapCount, lastSwap>>
    /\ UNCHANGED editorVars
    /\ UNCHANGED uiVars
    /\ UNCHANGED screenVars

handleTemplateSelect ==
    /\ templateToSwap # NoTemplateToSwap
    /\ \E k \in 1..Len(availableTemplates) :
         /\ availableTemplates[k] # selectedNewTemplate
         /\ selectedNewTemplate' = availableTemplates[k]
    /\ UNCHANGED <<templateSlots, templateToSwap, availableTemplates, swapCount, lastSwap>>
    /\ UNCHANGED editorVars
    /\ UNCHANGED uiVars
    /\ UNCHANGED screenVars

\* the Confirm button: the swap, the store update, the modal closing
ConfirmSwap ==
    /\ templateToSwap # NoTemplateToSwap
    /\ selectedNewTemplate # NoManualTemplate
    /\ templateSlots' = handleConfirmSwap(templateSlots, templateToSwap,
                                          selectedNewTemplate, swapCount + 1)
    /\ lastSwap' = [done |-> TRUE, templateSlots |-> templateSlots,
                    templateToSwap |-> templateToSwap,
                    selectedNewTemplate |-> selectedNewTemplate]
    /\ swapCount' = swapCount + 1
    /\ templateToSwap' = NoTemplateToSwap
    /\ selectedNewTemplate' = NoManualTemplate
    /\ UNCHANGED availableTemplates
    /\ UNCHANGED editorVars
    /\ UNCHANGED uiVars
    /\ UNCHANGED screenVars

handleCancel ==
    /\ templateToSwap # NoTemplateToSwap
    /\ selectedNewTemplate' = NoManualTemplate
    /\ templateToSwap' = NoTemplateToSwap
    /\ UNCHANGED <<templateSlots, availableTemplates, swapCount, lastSwap>>
    /\ UNCHANGED editorVars
    /\ UNCHANGED uiVars
    /\ UNCHANGED screenVars

NextSwap ==
    \/ OpenSwap
    \/ LoadTemplates
    \/ handleTemplateSelect
    \/ ConfirmSwap
    \/ handleCancel

SpecSwap == InitSwap /\ [][NextSwap]_vars

(***************************************************************************)
(* The store's actions on the package and the template counts.             *)
(***************************************************************************)
InitStore ==
    /\ slotRect \in SlotRects
    /\ natSize \in NatSizes
    /\ transform = DefaultTransform
    /\ committed = DefaultTransform
    /\ editor = "Idle"
    /\ layout = "settled"
    /\ photoIn = NoRect
    /\ slotIn = NoRect
    /\ finalizeIn = DefaultTransform
    /\ gaps = NoGaps
    /\ rawPlan = NoOpPlan
    /\ finalPlan = NoOpPlan
    /\ trace = "none"
    /\ commitsInRow = 0
    /\ recentInteraction = FALSE
    /\ session = "none"
    /\ NoSwapYet
    /\ UiAtRest
    /\ ScreensAtRest

setSelectedPackage ==
    /\ \E pkg \in packages \cup {NoPackage} :
         /\ pkg # selectedPackage
         /\ selectedPackage' = pkg
    /\ countRun' = [countRun EXCEPT !.called = FALSE]
    /\ UNCHANGED templateCounts
    /\ UNCHANGED <<editorVars, swapVars>>
    /\ UNCHANGED viewer
    /\ UNCHANGED screenVars

\* templateStore.loadTemplateTypes() populating the counts
setTemplateCounts ==
    /\ \E counts \in [TemplateTypeIds -> 0..MaxCount] :
         /\ counts # templateCounts
         /\ templateCounts' = counts
    /\ countRun' = NoCountRun
    /\ UNCHANGED selectedPackage
    /\ UNCHANGED <<editorVars, swapVars>>
    /\ UNCHANGED viewer
    /\ UNCHANGED screenVars

HandleTemplateCountChange ==
    /\ \E templateId \in TemplateTypeIds, change \in (0 - MaxChange)..MaxChange,
          customLimit \in CustomLimits :
         LET limit == effectiveLimit(selectedPackage, customLimit)
         IN /\ templateCounts' = handleTemplateCountChange(templateCounts, selectedPackage,
                                                           templateId, change, customLimit)
            /\ countRun' =
                  [called     |-> TRUE,
                   started    |-> TRUE,
                   fixed      |-> IF countRun.started
                                  THEN countRun.fixed /\ limit = countRun.limit
                                  ELSE getTotalTemplateCount(templateCounts) <= limit,
                   limit      |-> limit,
                   templateId |-> templateId,
                   change     |-> change,
                   before     |-> templateCounts]
    /\ UNCHANGED selectedPackage
    /\ UNCHANGED <<editorVars, swapVars>>
    /\ UNCHANGED viewer
    /\ UNCHANGED screenVars

NextStore ==
    \/ setSelectedPackage
    \/ setTemplateCounts
    \/ HandleTemplateCountChange

SpecStore == InitStore /\ [][NextStore]_vars

(***************************************************************************)
(* The photo viewer's handlers and the load events of its img element.     *)
(***************************************************************************)
InitViewer ==
    /\ slotRect \in SlotRects
    /\ natSize \in NatSizes
    /\ transform = DefaultTransform
    /\ committed = DefaultTransform
    /\ editor = "Idle"
    /\ layout = "settled"
    /\ photoIn = NoRect
    /\ slotIn = NoRect
    /\ finalizeIn = DefaultTransform
    /\ gaps = NoGaps
    /\ rawPlan = NoOpPlan
    /\ finalPlan = NoOpPlan
    /\ trace = "none"
    /\ commitsInRow = 0
    /\ recentInteraction = FALSE
    /\ session = "none"
    /\ NoSwapYet
    /\ templateCounts = NoCounts
    /\ selectedPackage = NoPackage
    /\ countRun = NoCountRun
    /\ ScreensAtRest
    /\ \E photos \in PhotoLists :
         \E photo \in {photos[i] : i \in 1..Len(photos)} \cup {OutsidePhoto} :
            viewer = viewerOn(photos, photo)

handlePrevious ==
    /\ viewer.img # "none"
    /\ viewer' = navigatedTo(viewer, previousIndex(viewer), "previous")
    /\ UNCHANGED <<editorVars, swapVars, templateCounts, selectedPackage, countRun, screenVars>>

handleNext ==
    /\ viewer.img # "none"
    /\ viewer' = navigatedTo(viewer, nextIndex(viewer), "next")
    /\ UNCHANGED <<editorVars, swapVars, templateCounts, selectedPackage, countRun, screenVars>>

\* the parent hands in another photo of the list: the first effect
SelectPhoto ==
    /\ viewer.img # "none"
    /\ \E i \in 1..Len(viewer.photos) :
         /\ viewer.photos[i].id # viewer.photo.id
         /\ LET newIndex == findPhotoIndex(viewer.photos, viewer.photos[i])
                reset == [viewer EXCEPT !.photo = viewer.photos[i],
                                        !.currentPhotoIndex = newIndex,
                                        !.currentUrlIndex = 0,
                                        !.imageLoaded = FALSE,
                                        !.imageError = FALSE,
                                        !.attempts = 0,
                                        !.op2 = viewer.op1, !.from2 = viewer.from1,
                                        !.op1 = "select",
                                        !.from1 = viewer.currentPhotoIndex]
            IN viewer' = rendered(viewer, reset)
    /\ UNCHANGED <<editorVars, swapVars, templateCounts, selectedPackage, countRun, screenVars>>

\* onLoad of the img element
ImgLoad ==
    /\ viewer.img = "loading"
    /\ viewer' = [viewer EXCEPT !.imageLoaded = TRUE, !.imageError = FALSE,
                                !.img = "loaded"]
    /\ UNCHANGED <<editorVars, swapVars, templateCounts, selectedPackage, countRun, screenVars>>

\* onError of the img element
ImgError ==
    /\ viewer.img = "loading"
    /\ LET fallbackUrls == getFallbackUrls(currentPhotoOf(viewer))
       IN IF viewer.currentUrlIndex < Len(fallbackUrls) - 1
          THEN viewer' = rendered(viewer,
                            [viewer EXCEPT !.currentUrlIndex = viewer.currentUrlIndex + 1,
                                           !.imageLoaded = FALSE,
                                           !.imageError = FALSE,
                                           !.img = "failed"])
          ELSE viewer' = [viewer EXCEPT !.imageError = TRUE, !.imageLoaded = FALSE,
                                        !.img = "failed"]
    /\ UNCHANGED <<editorVars, swapVars, templateCounts, selectedPackage, countRun, screenVars>>

\* the Retry button, shown while imageError
Retry ==
    /\ viewer.imageError
    /\ viewer' = rendered(viewer,
                    [viewer EXCEPT !.imageError = FALSE, !.imageLoaded = FALSE,
                                   !.currentUrlIndex = 0, !.attempts = 0])
    /\ UNCHANGED <<editorVars, swapVars, templateCounts, selectedPackage, countRun, screenVars>>

NextViewer ==
    \/ handlePrevious
    \/ handleNext
    \/ SelectPhoto
    \/ ImgLoad
    \/ ImgError
    \/ Retry

SpecViewer == InitViewer /\ [][NextViewer]_vars

(***************************************************************************)
(* FolderSelectionScreen.                                                  *)
(***************************************************************************)
InitFolder ==
    /\ slotRect \in SlotRects
    /\ natSize \in NatSizes
    /\ transform = DefaultTransform
    /\ committed = DefaultTransform
    /\ editor = "Idle"
    /\ layout = "settled"
    /\ photoIn = NoRect
    /\ slotIn = NoRect
    /\ finalizeIn = DefaultTransform
    /\ gaps = NoGaps
    /\ rawPlan = NoOpPlan
    /\ finalPlan = NoOpPlan
    /\ trace = "none"
    /\ commitsInRow = 0
    /\ recentInteraction = FALSE
    /\ session = "none"
    /\ NoSwapYet
    /\ templateCounts = NoCounts
    /\ countRun = NoCountRun
    /\ viewer = ViewerClosed
    /\ selectedPackage \in {NoPackage} \cup {packageData(p) : p \in ManualPackages}
    /\ folderScreen = FolderScreenMounted
    /\ grid = GridAtRest

\* handleFolderSelect and the effect on showPackageSelection that follows it
handleFolderSelect ==
    /\ ~folderScreen.showPackageSelection
    /\ \E folder \in Folders :
          folderScreen' = [folderScreen EXCEPT
                              !.selectedFolder = folder,
                              !.showPackageSelection = TRUE,
                              !.event = "folder", !.clicked = NoPackage,
                              !.was = selectedPackage,
                              !.before = folderScreen.continues,
                              !.clicks = 0]
    /\ selectedPackage' = NoPackage
    /\ UNCHANGED <<editorVars, swapVars, templateCounts, countRun, viewer, grid>>

handleBackToFolders ==
    /\ folderScreen.showPackageSelection
    /\ folderScreen' = [folderScreen EXCEPT
                            !.selectedFolder = NoFolder,
                            !.showPackageSelection = FALSE,
                            !.event = "back", !.clicked = NoPackage,
                            !.was = selectedPackage,
                            !.before = folderScreen.continues,
                            !.clicks = 0]
    /\ selectedPackage' = NoPackage
    /\ UNCHANGED <<editorVars, swapVars, templateCounts, countRun, viewer, grid>>

PackageClick ==
    /\ folderScreen.showPackageSelection
    /\ folderScreen.continues < MaxContinues
    /\ \E pkg \in ManualPackages :
          LET after == packageClick(folderScreen, selectedPackage, pkg) IN
            /\ folderScreen' = [after.screen EXCEPT
                                   !.event = "click",
                                   !.clicked = packageData(pkg),
                                   !.was = selectedPackage,
                                   !.before = folderScreen.continues,
                                   !.clicks = IF selectedPackage.id = pkg.id
                                              THEN 2 ELSE 1]
            /\ selectedPackage' = after.selected
    /\ UNCHANGED <<editorVars, swapVars, templateCounts, countRun, viewer, grid>>

NextFolder ==
    \/ handleFolderSelect
    \/ handleBackToFolders
    \/ PackageClick

SpecFolder == InitFolder /\ [][NextFolder]_vars

(***************************************************************************)
(* TemplateGrid and SlidingTemplateBar.                                    *)
(***************************************************************************)
InitGrid ==
    /\ slotRect \in SlotRects
    /\ natSize \in NatSizes
    /\ transform = DefaultTransform
    /\ committed = DefaultTransform
    /\ editor = "Idle"
    /\ layout = "settled"
    /\ photoIn = NoRect
    /\ slotIn = NoRect
    /\ finalizeIn = DefaultTransform
    /\ gaps = NoGaps
    /\ rawPlan = NoOpPlan
    /\ finalPlan = NoOpPlan
    /\ trace = "none"
    /\ commitsInRow = 0
    /\ recentInteraction = FALSE
    /\ session = "none"
    /\ NoSwapYet
    /\ UiAtRest
    /\ folderScreen = FolderScreenMounted
    /\ \E lay \in GridLayouts : \E n \in 1..MaxGroups : grid = gridOn(lay, n)

GridFrame == UNCHANGED <<editorVars, swapVars, uiVars, folderScreen>>

\* the parent switches the isEditingMode prop
SetEditingMode ==
    /\ \E b \in BOOLEAN :
          /\ b # grid.isEditingMode
          /\ grid' = keyboardEffect(grid,
                        IF b
                        THEN [grid EXCEPT !.isEditingMode = TRUE,
                                          !.indexAtEdit = grid.currentIndex,
                                          !.called = "none"]
                        ELSE [grid EXCEPT !.isEditingMode = FALSE])
    /\ GridFrame

\* the parent hands down a slot list with another number of templates
SetTemplateGroups ==
    /\ \E n \in 1..MaxGroups :
          /\ n # grid.groups
          /\ grid' = keyboardEffect(grid, [grid EXCEPT !.groups = n])
    /\ GridFrame

\* onClick of a template item
TemplateClick ==
    /\ \E index \in 0..(grid.groups - 1) :
          grid' = keyboardEffect(grid,
                     IF grid.layout = "coverflow"
                     THEN navigateToTemplate(grid, grid.isEditingMode, index)
                     ELSE grid)
    /\ GridFrame

ArrowPrevious ==
    /\ grid.layout = "coverflow"
    /\ grid.currentIndex > 0
    /\ grid' = keyboardEffect(grid,
                  IF grid.isEditingMode
                  THEN grid
                  ELSE navigateToTemplate(grid, grid.isEditingMode,
                                          grid.currentIndex - 1))
    /\ GridFrame

ArrowNext ==
    /\ grid.layout = "coverflow"
    /\ grid.currentIndex < grid.groups - 1
    /\ grid' = keyboardEffect(grid,
                  IF grid.isEditingMode
                  THEN grid
                  ELSE navigateToTemplate(grid, grid.isEditingMode,
                                          grid.currentIndex + 1))
    /\ GridFrame

\* the keydown listener that the effect registered last
handleKeyDown ==
    /\ grid.layout = "coverflow"
    /\ \E key \in {"ArrowLeft", "ArrowRight"} :
          grid' = keyboardEffect(grid,
                     navigateToTemplate(grid, grid.keyEditing,
                        IF key = "ArrowLeft"
                        THEN grid.currentIndex - 1
                        ELSE grid.currentIndex + 1))
    /\ GridFrame

handleTouchStart ==
    /\ grid.layout = "coverflow"
    /\ grid' = [grid EXCEPT !.touchStart = TRUE, !.touchEnd = NoTouch]
    /\ GridFrame

handleTouchMove ==
    /\ grid.layout = "coverflow"
    /\ \E swipe \in Swipes : grid' = [grid EXCEPT !.touchEnd = swipe]
    /\ GridFrame

handleTouchEnd ==
    /\ grid.layout = "coverflow"
    /\ grid.touchStart
    /\ grid.touchEnd # NoTouch
    /\ LET moved ==
              IF grid.touchEnd = "left"
              THEN navigateToTemplate(grid, grid.isEditingMode, grid.currentIndex + 1)
              ELSE IF grid.touchEnd = "right"
                   THEN navigateToTemplate(grid, grid.isEditingMode, grid.currentIndex - 1)
                   ELSE grid
       IN grid' = keyboardEffect(grid,
                     [moved EXCEPT !.touchStart = FALSE, !.touchEnd = NoTouch])
    /\ GridFrame

ActionClick ==
    /\ \E callback \in Callbacks : grid' = actionClick(grid, callback)
    /\ GridFrame

\* the parent shows or hides the sliding bar (isVisible)
SetBarVisible ==
    /\ grid' = [grid EXCEPT !.barVisible = ~grid.barVisible]
    /\ GridFrame

\* onSlotClick of a template in the bar; the bar renders nothing when it is
\* hidden or when isEditingMode is set
BarSlotClick ==
    /\ grid.barVisible
    /\ ~grid.isEditingMode
    /\ grid' = [grid EXCEPT !.called = "onSlotSelect"]
    /\ GridFrame

NextGrid ==
    \/ SetEditingMode
    \/ SetTemplateGroups
    \/ TemplateClick
    \/ ArrowPrevious
    \/ ArrowNext
    \/ handleKeyDown
    \/ handleTouchStart
    \/ handleTouchMove
    \/ handleTouchEnd
    \/ ActionClick
    \/ SetBarVisible
    \/ BarSlotClick

SpecGrid == InitGrid /\ [][NextGrid]_vars

(***************************************************************************)
(* Properties.                                                             *)
(***************************************************************************)
\* the pipeline of the most recent finalize ran on laid-out geometry
Finalized == trace \in {"NoCorrection", "Translated", "PostSnapOverride", "ResetToDefault"}

SigSides(g, threshold) == {s \in Sides : g[s] > threshold}

Adjacent(S) == S # {"left", "right"} /\ S # {"top", "bottom"}

\* gaps of the measured photo rectangle shifted by a plan's translation
ShiftedGaps(plan) ==
    detectGaps(slotIn, ShiftRect(photoIn, Px(plan.dxPercent, slotIn.width),
                                          Px(plan.dyPercent, slotIn.height)))

\* gaps of the photo as rendered under the current transform
RenderedGaps == detectGaps(slotRect, RenderPhoto(transform, slotRect, natSize))

TransformEq(a, b) ==
    /\ RatEq(a.offsetXPercent, b.offsetXPercent)
    /\ RatEq(a.offsetYPercent, b.offsetYPercent)
    /\ a.scale = b.scale

\* C1: with exactly one significant side, shifting the photo rectangle by the
\* planned translation makes the gap on that side smaller than it was.
C1_DirectionalCorrectness ==
    (Finalized /\ Cardinality(SigSides(gaps, 0)) = 1 /\ rawPlan.kind = "Translate")
        => \A s \in SigSides(gaps, 0) : ShiftedGaps(rawPlan)[s] < gaps[s]

\* C2: a second finalize with no manipulation in between plans NoOp.
C2_SecondPlanNoOp ==
    commitsInRow >= 2 => finalPlan.kind = "NoOp"

\* C3: a second finalize with no manipulation in between returns the transform
\* the first one returned.
C3_FixedPoint ==
    commitsInRow >= 2 => TransformEq(transform, finalizeIn)

\* C4: the validator turns a Translate plan into ResetToDefault exactly when 3 or
\* more sides of the shifted photo rectangle have a gap above 5 px and returns it
\* unchanged otherwise; no Translate that finalize applies leaves 3 or more sides
\* with a gap above 5 px.
C4_PostSnapOverride ==
    /\ (trace = "validated" /\ rawPlan.kind = "Translate")
          => finalPlan = IF Cardinality(SigSides(ShiftedGaps(rawPlan), 5)) >= 3
                         THEN ResetPlan
                         ELSE rawPlan
    /\ (Finalized /\ finalPlan.kind = "Translate")
          => Cardinality(SigSides(ShiftedGaps(finalPlan), 5)) < 3

C4_Witness ==
    /\ trace = "validated"
    /\ rawPlan.kind = "Translate"
    /\ Cardinality(SigSides(gaps, 5)) < 3
    /\ Cardinality(SigSides(ShiftedGaps(rawPlan), 5)) >= 3
    /\ finalPlan.kind = "ResetToDefault"

\* C5: the planner's plan is decided by the number of sides with a gap above 0:
\* none gives NoOp, 1 or 2 give Translate, 3 or 4 give ResetToDefault.
C5_Classification ==
    Finalized =>
        LET n == Cardinality(SigSides(gaps, 0))
        IN /\ n = 0 => rawPlan.kind = "NoOp"
           /\ n \in {1, 2} => rawPlan.kind = "Translate"
           /\ n >= 3 => rawPlan.kind = "ResetToDefault"

C5_Witness ==
    /\ Finalized
    /\ Cardinality(SigSides(gaps, 0)) = 2
    /\ \A s \in Sides : gaps[s] <= 5
    /\ rawPlan.kind = "Translate"

\* C6: a Translate plan is dxPercent = gaps.left/width - gaps.right/width and
\* dyPercent = gaps.top/height - gaps.bottom/height, opposite sides included.
C6_TranslateFormula ==
    (Finalized /\ rawPlan.kind = "Translate") =>
        /\ RatEq(rawPlan.dxPercent, Rat(gaps.left - gaps.right, slotIn.width))
        /\ RatEq(rawPlan.dyPercent, Rat(gaps.top - gaps.bottom, slotIn.height))

C6_Witness ==
    /\ Finalized
    /\ rawPlan.kind = "Translate"
    /\ gaps.left > 0
    /\ gaps.right > 0
    /\ gaps.left # gaps.right

\* C7: when finalize applies a Translate for 1 side or 2 adjacent sides, every
\* side that was significant measures a gap of exactly 0 afterwards.
C7_ExactClosure ==
    (Finalized /\ finalPlan.kind = "Translate" /\ Adjacent(SigSides(gaps, 0)))
        => \A s \in SigSides(gaps, 0) : RenderedGaps[s] = 0

\* C8: every gap is >= 0, is 0 exactly when the photo edge meets or overlaps the
\* slot edge, and is otherwise the distance between the two edges.
C8_DetectGaps ==
    Finalized =>
        LET st == photoIn.y - slotIn.y
            sl == photoIn.x - slotIn.x
            sr == (slotIn.x + slotIn.width) - (photoIn.x + photoIn.width)
            sb == (slotIn.y + slotIn.height) - (photoIn.y + photoIn.height)
        IN /\ \A s \in Sides : gaps[s] >= 0
           /\ (gaps.top = 0) <=> (st <= 0)
           /\ (gaps.left = 0) <=> (sl <= 0)
           /\ (gaps.right = 0) <=> (sr <= 0)
           /\ (gaps.bottom = 0) <=> (sb <= 0)
           /\ gaps.top > 0 => gaps.top = st
           /\ gaps.left > 0 => gaps.left = sl
           /\ gaps.right > 0 => gaps.right = sr
           /\ gaps.bottom > 0 => gaps.bottom = sb

C8_Witness ==
    /\ Finalized
    /\ gaps.right > 0
    /\ gaps.left = 0
    /\ photoIn.x < slotIn.x

\* C9: on a slot or photo rectangle of no extent finalize returns the transform
\* unchanged, records DegenerateGeometry and divides by no zero dimension.
C9_DegenerateGeometry ==
    (trace # "none" /\ (IsDegenerate(slotIn) \/ IsDegenerate(photoIn))) =>
        /\ trace = "DegenerateGeometry"
        /\ transform = finalizeIn
        /\ rawPlan.dxPercent.den # 0 /\ rawPlan.dyPercent.den # 0
        /\ transform.offsetXPercent.den # 0 /\ transform.offsetYPercent.den # 0

C9_Witness ==
    /\ trace = "DegenerateGeometry"
    /\ IsDegenerate(slotIn)
    /\ ~IsDegenerate(photoIn)
    /\ transform # DefaultTransform

\* C10: when the final plan is ResetToDefault, finalize returns the default
\* transform whatever the current offsets and scale were.
C10_ResetToDefault ==
    (Finalized /\ finalPlan.kind = "ResetToDefault") => transform = DefaultTransform

C10_Witness ==
    /\ Finalized
    /\ finalPlan.kind = "ResetToDefault"
    /\ finalizeIn.scale # DefaultScale
    /\ ~RatEq(finalizeIn.offsetXPercent, RatZero)
    /\ ~RatEq(finalizeIn.offsetYPercent, RatZero)

\* a = b + c as fractions
RatIsSum(a, b, c) ==
    a.num * b.den * c.den = (b.num * c.den + c.num * b.den) * a.den

\* C11: when the final plan is Translate{dx, dy}, finalize returns the current
\* transform with offsetXPercent increased by dx, offsetYPercent increased by dy
\* and the scale unchanged.
C11_TranslateApplied ==
    (Finalized /\ finalPlan.kind = "Translate") =>
        /\ RatIsSum(transform.offsetXPercent, finalizeIn.offsetXPercent, finalPlan.dxPercent)
        /\ RatIsSum(transform.offsetYPercent, finalizeIn.offsetYPercent, finalPlan.dyPercent)
        /\ transform.scale = finalizeIn.scale

C11_Witness ==
    /\ Finalized
    /\ finalPlan.kind = "Translate"
    /\ finalPlan.dxPercent.num # 0
    /\ finalPlan.dyPercent.num # 0
    /\ finalizeIn.offsetXPercent.num # 0
    /\ finalizeIn.scale # DefaultScale

\* C12: when no side has a gap above the threshold, finalize returns the current
\* transform unchanged and the trace reports that no correction was made.
C12_ZeroGapNoOp ==
    (Finalized /\ SigSides(gaps, GAP_THRESHOLD) = {}) =>
        /\ transform = finalizeIn
        /\ rawPlan.kind = "NoOp"
        /\ finalPlan.kind = "NoOp"
        /\ trace = "NoCorrection"

C12_Witness ==
    /\ Finalized
    /\ SigSides(gaps, GAP_THRESHOLD) = {}
    /\ finalizeIn.offsetXPercent.num # 0
    /\ finalizeIn.offsetYPercent.num # 0
    /\ finalizeIn.scale # DefaultScale
    /\ photoIn.y < slotIn.y
    /\ trace = "NoCorrection"

\* C13: the validator returns a NoOp plan and a ResetToDefault plan as they are,
\* for every gap vector and geometry.
C13_ValidatorPassThrough ==
    (trace = "validated" /\ rawPlan.kind # "Translate") => finalPlan = rawPlan

C13_Witness ==
    /\ trace = "validated"
    /\ rawPlan.kind = "NoOp"
    /\ Cardinality(SigSides(gaps, POST_SNAP_ALLOWANCE)) >= 3
    /\ finalPlan.kind = "NoOp"

\* C14: every commit runs gap detection and correction, however recently the
\* operator manipulated the photo: after a finalize the trace is that of the
\* pipeline run on the geometry measured at the commit.
C14_AlwaysRunsOnCommit ==
    commitsInRow >= 1 =>
        \/ trace = "DegenerateGeometry" /\ (IsDegenerate(slotIn) \/ IsDegenerate(photoIn))
        \/ /\ Finalized
           /\ gaps = detectGaps(slotIn, photoIn)
           /\ finalPlan = validate(planMovement(gaps, slotIn, GAP_THRESHOLD),
                                   slotIn, photoIn, POST_SNAP_ALLOWANCE)

C14_Witness ==
    /\ commitsInRow = 1
    /\ recentInteraction
    /\ session = "committed"
    /\ trace = "Translated"
    /\ transform # finalizeIn

EditorStates == {"Idle", "Dragging", "Finalizing"}

CommitCycle ==
    {<<"Idle", "Dragging">>, <<"Dragging", "Finalizing">>, <<"Finalizing", "Idle">>}

\* the pipeline ran in this step: a new decision trace was recorded
PipelineRan == trace' # "none" /\ commitsInRow' = commitsInRow + 1

\* C15 as stated: every change of the editor state is one of Idle -> Dragging,
\* Dragging -> Finalizing, Finalizing -> Idle.
C15_OnlyCommitCycle ==
    [][editor' # editor => <<editor, editor'>> \in CommitCycle]_vars

\* C15: the editor is always Idle, Dragging or Finalizing (no Error state); it
\* changes state only along Idle -> Dragging -> Finalizing -> Idle, or from
\* Dragging straight back to Idle when the edit is abandoned; the pipeline runs
\* in a Finalizing step and in no other, once per commit, and every step out of
\* Finalizing ends in Idle.
C15_EditorStateMachine ==
    [][/\ editor \in EditorStates
       /\ editor' \in EditorStates
       /\ editor' # editor =>
             <<editor, editor'>> \in CommitCycle \cup {<<"Dragging", "Idle">>}
       /\ editor = "Finalizing" => (editor' = "Idle" /\ PipelineRan)
       /\ editor # "Finalizing" =>
             /\ trace' \in {trace, "none"}
             /\ commitsInRow' \in {commitsInRow, 0}
             /\ committed' = committed
       /\ editor' = "Finalizing" => (editor = "Dragging" /\ commitsInRow' = commitsInRow)
      ]_vars

C15_Witness ==
    /\ editor = "Idle"
    /\ session = "committed"
    /\ commitsInRow = 2
    /\ trace \in {"Translated", "ResetToDefault", "NoCorrection"}

\* C16: a step that abandons the edit does not run finalize, leaves the
\* committed transform as it was and shows it again; the committed transform
\* changes in a Finalizing step only, so no raw drag edit reaches it.
C16_Cancellation ==
    /\ [](session = "abandoned" => (editor = "Idle" /\ transform = committed))
    /\ [][/\ (editor = "Dragging" /\ editor' = "Idle") =>
                /\ committed' = committed
                /\ transform' = committed
                /\ trace' = trace
                /\ finalizeIn' = finalizeIn
                /\ commitsInRow' = commitsInRow
          /\ committed' # committed => editor = "Finalizing"
         ]_vars

C16_Witness ==
    /\ session = "abandoned"
    /\ editor = "Idle"
    /\ transform = committed
    /\ committed # DefaultTransform

\* C18: the scale of the transform, shown or committed, is strictly positive in
\* every reachable state.
C18_ScalePositive ==
    /\ transform.scale > 0
    /\ committed.scale > 0
    /\ finalizeIn.scale > 0

C18_Witness ==
    /\ Finalized
    /\ finalPlan.kind = "ResetToDefault"
    /\ finalizeIn.scale > DefaultScale
    /\ session = "committed"
    /\ transform.scale = DefaultScale
    /\ committed.scale = DefaultScale

\* the swapped template, the list before the swap, the slots now
SwappedId == lastSwap.templateToSwap.templateId

OldList == lastSwap.templateSlots

OldSlots == lastSwap.templateToSwap.slots

IsSwapped(s) == s.templateId = SwappedId

IsOther(s) == s.templateId # SwappedId

\* position in the old list of the swapped template's first slot
FirstOld ==
    CHOOSE i \in 1..Len(OldList) :
        /\ IsSwapped(OldList[i])
        /\ \A j \in 1..(i - 1) : IsOther(OldList[j])

\* the old slots are gone, n new slots with slotIndex 0..n-1 stand in one block
\* where the first old slot stood, the other templates' slots are as they were
SwapKeepsPosition(n) ==
    /\ \A i \in 1..Len(templateSlots), j \in 1..Len(OldList) :
          IsSwapped(OldList[j]) => templateSlots[i] # OldList[j]
    /\ { i \in 1..Len(templateSlots) : IsSwapped(templateSlots[i]) }
          = FirstOld..(FirstOld + n - 1)
    /\ \A k \in 0..(n - 1) : templateSlots[FirstOld + k].slotIndex = k
    /\ SelectSeq(templateSlots, IsOther) = SelectSeq(OldList, IsOther)

\* C19 as stated: the new block has as many slots as holes_data is long, or 1
\* when holes_data is absent.
C19_SwapKeepsPositionAsStated ==
    lastSwap.done =>
        SwapKeepsPosition(IF lastSwap.selectedNewTemplate.holes_data.present
                          THEN lastSwap.selectedNewTemplate.holes_data.length
                          ELSE 1)

\* C19: after a swap the old slots of the swapped templateId are gone; the new
\* slots, as many as holes_data is long or 1 when holes_data is absent or
\* empty, carry the original templateId and slotIndex 0..n-1 and form one block
\* starting where the first old slot stood; the slots of the other templates
\* are unchanged and in the same order.
C19_SwapKeepsPosition ==
    lastSwap.done =>
        SwapKeepsPosition(IF /\ lastSwap.selectedNewTemplate.holes_data.present
                             /\ lastSwap.selectedNewTemplate.holes_data.length > 0
                          THEN lastSwap.selectedNewTemplate.holes_data.length
                          ELSE 1)

C19_Witness ==
    /\ lastSwap.done
    /\ SwappedId = "T2"
    /\ Len(OldSlots) = 3
    /\ Len(SelectSeq(templateSlots, IsSwapped)) = 2
    /\ templateSlots[1].templateId = "T1"
    /\ templateSlots[2].templateId = "T2"
    /\ templateSlots[4].templateId = "T3"

NewSlotsNow == SelectSeq(templateSlots, IsSwapped)

\* fewer new slots than old ones, old slot 0 empty, a photo in a later old slot
PhotoMovesToFront ==
    /\ Len(NewSlotsNow) < Len(OldSlots)
    /\ OldSlots[1].photoId = NoPhoto
    /\ \E j \in 1..Len(OldSlots) : OldSlots[j].photoId # NoPhoto

\* C20: new slot i carries the photoId and transform of old slot i for every i
\* below both counts, new slots beyond the old count are empty, and when the
\* new template has fewer slots and old slot 0 is empty, new slot 0 carries the
\* photo and transform of the first old slot that has a photo.
C20_SwapPreservesPhotos ==
    lastSwap.done =>
        /\ \A i \in 1..Len(NewSlotsNow) :
              /\ (i <= Len(OldSlots) /\ ~(i = 1 /\ PhotoMovesToFront)) =>
                    /\ NewSlotsNow[i].photoId = OldSlots[i].photoId
                    /\ NewSlotsNow[i].transform = OldSlots[i].transform
              /\ i > Len(OldSlots) =>
                    /\ NewSlotsNow[i].photoId = NoPhoto
                    /\ NewSlotsNow[i].transform = NoTransform
        /\ PhotoMovesToFront =>
              \E j \in 1..Len(OldSlots) :
                 /\ OldSlots[j].photoId # NoPhoto
                 /\ \A h \in 1..(j - 1) : OldSlots[h].photoId = NoPhoto
                 /\ NewSlotsNow[1].photoId = OldSlots[j].photoId
                 /\ NewSlotsNow[1].transform = OldSlots[j].transform

C20_Witness ==
    /\ lastSwap.done
    /\ PhotoMovesToFront
    /\ Len(OldSlots) = 3
    /\ Len(NewSlotsNow) = 2
    /\ OldSlots[2].photoId = NoPhoto
    /\ NewSlotsNow[1].photoId = "p1"
    /\ NewSlotsNow[1].transform = "tfA"

\* no photo is held by two slots of the sequence
DistinctPhotos(slots) ==
    \A i, j \in 1..Len(slots) :
        (i # j /\ slots[i].photoId # NoPhoto) => slots[i].photoId # slots[j].photoId

\* C27: when the old template's slots hold pairwise distinct photos, no photo
\* appears in more than one of the new slots after the swap.
C27_SwapNeverDuplicates ==
    (lastSwap.done /\ DistinctPhotos(OldSlots)) => DistinctPhotos(NewSlotsNow)

\* C25: with one limit L for every call and counts that start with a total of
\* at most L, after any sequence of handleTemplateCountChange calls every count
\* is >= 0 and the total is <= L; a call whose total would exceed its limit
\* leaves templateCounts as it was.
C25_TemplateCountLimit ==
    countRun.called =>
        /\ countRun.fixed =>
              /\ \A id \in DOMAIN templateCounts : templateCounts[id] >= 0
              /\ getTotalTemplateCount(templateCounts) <= countRun.limit
        /\ LET was   == countOf(countRun.before, countRun.templateId)
               now   == IF was + countRun.change >= 0 THEN was + countRun.change ELSE 0
               total == getTotalTemplateCount(countRun.before) - was + now
           IN total > countRun.limit => templateCounts = countRun.before

C25_Witness ==
    /\ countRun.called
    /\ countRun.fixed
    /\ countRun.change > 0
    /\ countRun.limit = 2
    /\ getTotalTemplateCount(countRun.before) = 2
    /\ templateCounts = countRun.before
    /\ \A id \in TemplateTypeIds : countOf(templateCounts, id) = 1

\* C26: a call of handleTemplateCountChange with a negative change on a template
\* whose count is positive lowers that count to max(0, count + change).
C26_DecrementNeverRefused ==
    (countRun.called /\ countRun.change < 0
        /\ countOf(countRun.before, countRun.templateId) > 0) =>
        countOf(templateCounts, countRun.templateId)
            = Max(0, countOf(countRun.before, countRun.templateId) + countRun.change)

\* the fallback URLs of the photo on screen
UrlsOnScreen == getFallbackUrls(currentPhotoOf(viewer))

\* C23: the URL index stays within the fallback list and the attempts follow
\* it one by one; in the error state every URL has failed and no attempt is
\* under way; in the loaded state the error flag is clear; and while the photo
\* is neither loaded nor failed an attempt is under way, so that it ends loaded
\* or failed after at most as many attempts as there are fallback URLs.
C23_UrlFallback ==
    viewer.img # "none" =>
        /\ viewer.currentUrlIndex >= 0
        /\ viewer.currentUrlIndex <= Len(UrlsOnScreen) - 1
        /\ viewer.attempts <= Len(UrlsOnScreen)
        /\ viewer.img = "loading" => viewer.attempts = viewer.currentUrlIndex + 1
        /\ viewer.imageError =>
              /\ ~viewer.imageLoaded
              /\ viewer.currentUrlIndex = Len(UrlsOnScreen) - 1
              /\ viewer.img = "failed"
        /\ viewer.imageLoaded => ~viewer.imageError
        /\ (~viewer.imageLoaded /\ ~viewer.imageError) => viewer.img = "loading"

NavOps == {"next", "previous"}

InPhotoRange(i) == i >= 0 /\ i <= Len(viewer.photos) - 1

\* what both statements of C24 share: range, wrap-around, URL index reset
NavigationWraps ==
    /\ viewer.op1 \in NavOps => InPhotoRange(viewer.currentPhotoIndex)
    /\ (viewer.op1 = "next" /\ viewer.from1 = Len(viewer.photos) - 1) =>
          viewer.currentPhotoIndex = 0
    /\ (viewer.op1 = "previous" /\ viewer.from1 = 0) =>
          viewer.currentPhotoIndex = Len(viewer.photos) - 1
    /\ (viewer.op1 \in NavOps /\ viewer.currentPhotoIndex # viewer.from1) =>
          viewer.urlAfterNav = 0

ContinueInvoked == folderScreen.continues # folderScreen.before

ClickedSelected ==
    folderScreen.event = "click" /\ folderScreen.was.id = folderScreen.clicked.id

\* C22: handleContinue is invoked only by a click on the package that was
\* already the selected package, with a client folder selected, so that
\* the package has had two clicks in a row; a click on any other package
\* only makes it the selected package; entering the package step and
\* going back to the folder step leave no package selected.
C22_TwoClicks ==
    /\ ContinueInvoked =>
          /\ ClickedSelected
          /\ folderScreen.selectedFolder # NoFolder
          /\ folderScreen.clicks = 2
          /\ folderScreen.continues = folderScreen.before + 1
    /\ (folderScreen.event = "click" /\ ~ClickedSelected) =>
          /\ selectedPackage = folderScreen.clicked
          /\ ~ContinueInvoked
    /\ folderScreen.event \in {"folder", "back"} => selectedPackage = NoPackage

C22_Witness ==
    /\ ContinueInvoked
    /\ folderScreen.event = "click"
    /\ folderScreen.clicked.templateCount = 1

\* C21: while isEditingMode is set, currentIndex is what it was when
\* editing mode was switched on, and no callback has been invoked since.
C21_EditingBlocks ==
    grid.isEditingMode =>
        /\ grid.currentIndex = grid.indexAtEdit
        /\ grid.called = "none"

====
